---- MODULE Spec2Model ----
(***************************************************************************)
(* The word generator of crates/gallry-puzzle-soulver: Slot, WordGenerator, *)
(* WordIter and AllCombinationsIter of src/lib.rs, driven by a caller that  *)
(* builds slots, constructs one generator and consumes its iterators.       *)
(*                                                                          *)
(* A char is a one-character string, a String is a sequence of chars, a     *)
(* Vec is a sequence, a HashSet is a set, usize indices keep their 0-based  *)
(* values (a sequence position is the index plus one).                      *)
(***************************************************************************)
EXTENDS Integers, Sequences, FiniteSets, TLC

\* ------------------------------------------------------------------ bounds
\* Slots a caller puts in the Vec<Slot> it builds itself.
MaxSlots == 2
\* Candidates of a slot the caller builds itself.
MaxOptions == 2
\* next() calls that return None which the caller still makes on one iterator.
MaxNones == 2

\* ------------------------------------------------------------- input data
\* Candidate lists the caller passes to Slot::new for the slots it builds
\* itself: empty, single, and longer ones.
CandidateLists ==
    { s \in { <<>>, <<"a">>, <<"a", "b">>, <<"a", "b", "c">> } :
        Len(s) <= MaxOptions }

\* The slots of tests/lib.rs (test_generate, test_get_words_with_filtering).
TestOptions == << <<"c", "b", "r">>, <<"a", "i", "o">>, <<"t", "s", "e">> >>
\* The slots of the WordGenerator doc example.
DocOptions == << <<"c", "d">>, <<"a", "o">>, <<"t", "g">> >>

\* Slots with duplicate candidates.
DupOptions == << <<"a", "a">>, <<"b", "a", "b">> >>

CatDog == { <<"c", "a", "t">>, <<"d", "o", "g">> }
\* Reference sets the caller passes to new(.., Some(..)) and set_word_list.
WordSets ==
    { {}, CatDog,
      { <<"b">>, <<"a", "b">>, <<"b", "b">>, <<"a", "a", "b">>, <<"r", "o", "e">> } }

\* include_str!("../data/words.txt"): the embedded list, one word per line.
EMBEDDED_WORDLIST ==
    <<"c", "a", "t", "\n", "b", "a", "t", "\n", "a", "a", "\n">>

\* The files the caller names: readable with words (CRLF and no final
\* newline), readable with zero lines, and unreadable.
Paths == {"words.txt", "empty.txt", "missing.txt"}
Readable(path) == path # "missing.txt"
FileContent(path) ==
    IF path = "words.txt"
    THEN <<"d", "o", "g", "\r", "\n", "a", "b">>
    ELSE <<>>

\* -------------------------------------------------------------- std types
None == [some |-> FALSE, val |-> <<>>]
Some(v) == [some |-> TRUE, val |-> v]
NoSet == [some |-> FALSE, val |-> {}]

StripCr(line) ==
    IF line # <<>> /\ line[Len(line)] = "\r"
    THEN SubSeq(line, 1, Len(line) - 1)
    ELSE line

RECURSIVE SplitLines(_, _)
SplitLines(content, cur) ==
    IF content = <<>>
    THEN IF cur = <<>> THEN <<>> ELSE <<StripCr(cur)>>
    ELSE IF Head(content) = "\n"
         THEN <<StripCr(cur)>> \o SplitLines(Tail(content), <<>>)
         ELSE SplitLines(Tail(content), Append(cur, Head(content)))

\* content.lines().map(|line| line.to_string()).collect::<HashSet<String>>()
LinesToSet(content) ==
    LET lines == SplitLines(content, <<>>)
    IN  { lines[i] : i \in 1..Len(lines) }

\* ------------------------------------------------------------------ state
VARIABLES
    pc,          \* "build": the caller is building slots; "ready": the
                 \* generator is built; "panicked": the program aborted
    slot,        \* the Slot the caller holds outside the vector
    slot_vec,    \* the Vec<Slot> the caller is building
    generator,   \* the WordGenerator
    word_iter,   \* the WordIter returned by iter()
    all_iter,    \* the AllCombinationsIter returned by all_combinations()
    iter_log,    \* what the WordIter returned so far
    all_log,     \* what the AllCombinationsIter returned so far
    last_call,   \* the last call on the generator and its outcome
    slot_log,    \* what the calls on the held Slot returned so far
    prev,        \* the log and final state of the iterator dropped last
    main         \* the command-line program: arguments, position, output

vars == <<pc, slot, slot_vec, generator, word_iter, all_iter, iter_log, all_log,
          last_call, slot_log, prev, main>>

\* ------------------------------------------------------------------- Slot
NoSlot == [live |-> FALSE, options |-> <<>>, current |-> 0]

\* Slot::new
SlotNewFn(options) == [live |-> TRUE, options |-> options, current |-> 0]

\* Mutant: an exhausted slot rewinds, so the call after None starts over.
SlotNextFn_Rewinds(s) ==
    IF s.current < Len(s.options)
    THEN [slot |-> [s EXCEPT !.current = @ + 1],
          ret |-> Some(s.options[s.current + 1])]
    ELSE [slot |-> [s EXCEPT !.current = 0], ret |-> None]

\* impl Iterator for Slot: next
SlotNextFn(s) ==
    IF s.current < Len(s.options)
    THEN [slot |-> [s EXCEPT !.current = @ + 1],
          ret |-> Some(s.options[s.current + 1])]
    ELSE [slot |-> s, ret |-> None]

\* impl Deref for Slot: deref; indexing past the end of options panics
SlotDerefFn(s) ==
    IF s.current < Len(s.options)
    THEN [ret |-> Some(s.options[s.current + 1]), panic |-> FALSE]
    ELSE [ret |-> None, panic |-> TRUE]

\* impl From<Slot> for String: from; char::to_string gives a one-character
\* String; indexing past the end of options panics
SlotIntoStringFn(s) ==
    IF s.current < Len(s.options)
    THEN [ret |-> Some(<<s.options[s.current + 1]>>), panic |-> FALSE]
    ELSE [ret |-> None, panic |-> TRUE]

\* The calls made on the held Slot: the candidates it was constructed with,
\* the last operation, what next() returned so far, and the last character
\* and the last String read from the slot.
NoSlotLog ==
    [op |-> "none", options |-> <<>>, out |-> <<>>, nones |-> 0,
     ch |-> None, str |-> None]

SlotLogNew(options) == [NoSlotLog EXCEPT !.op = "new", !.options = options]

SlotLogged(log, op, ret) ==
    [log EXCEPT !.op = op,
                !.out = IF ret.some THEN Append(@, ret.val) ELSE @,
                !.nones = IF op = "next" /\ ~ret.some THEN @ + 1 ELSE @]

\* ---------------------------------------------------------- WordGenerator
NoGenerator == [slots |-> <<>>, word_list |-> NoSet]

\* Mutant: an absent list stays absent instead of becoming the embedded list.
WordGeneratorNew_KeepsNone(slots, word_list) ==
    [slots |-> slots, word_list |-> word_list]

\* WordGenerator::new
WordGeneratorNew(slots, word_list) ==
    [slots |-> slots,
     word_list |-> IF word_list.some
                   THEN Some(word_list.val)
                   ELSE Some(LinesToSet(EMBEDDED_WORDLIST))]

\* WordGenerator::with_slots
WordGeneratorWithSlots(slots) == WordGeneratorNew(slots, NoSet)

\* WordGenerator::with_no_filtering
WordGeneratorWithNoFiltering(slots) == [slots |-> slots, word_list |-> Some({})]

\* Mutant: the old list is cleared before the file is read.
LoadWordListFromFileFn_ClearsFirst(g, path) ==
    IF ~Readable(path)
    THEN [generator |-> [g EXCEPT !.word_list = Some({})], ok |-> FALSE]
    ELSE [generator |-> [g EXCEPT !.word_list = Some(LinesToSet(FileContent(path)))],
          ok |-> TRUE]

\* Mutant: the old list is taken out before the file is read and is not put
\* back when the read fails.
LoadWordListFromFileFn_TakesFirst(g, path) ==
    IF ~Readable(path)
    THEN [generator |-> [g EXCEPT !.word_list = NoSet], ok |-> FALSE]
    ELSE [generator |-> [g EXCEPT !.word_list = Some(LinesToSet(FileContent(path)))],
          ok |-> TRUE]

\* WordGenerator::load_word_list_from_file
LoadWordListFromFileFn(g, path) ==
    IF ~Readable(path)
    THEN [generator |-> g, ok |-> FALSE]
    ELSE [generator |-> [g EXCEPT !.word_list = Some(LinesToSet(FileContent(path)))],
          ok |-> TRUE]

\* Mutant: the new words are added to the old list.
SetWordListFn_Union(g, word_list) ==
    [g EXCEPT !.word_list = Some(g.word_list.val \cup word_list)]

\* Mutant: an empty set is taken for "no change".
SetWordListFn_IgnoresEmpty(g, word_list) ==
    IF word_list = {} THEN g ELSE [g EXCEPT !.word_list = Some(word_list)]

\* WordGenerator::set_word_list
SetWordListFn(g, word_list) == [g EXCEPT !.word_list = Some(word_list)]

\* ------------------------------------------------------------- iterators
NoIter == [live |-> FALSE, current_indices |-> <<>>, slot_sizes |-> <<>>,
           done |-> FALSE]
NoLog == [out |-> <<>>, visited |-> <<>>, nones |-> 0, ret |-> None]

\* Mutant: a slot counts its distinct candidates only.
SlotSizes_Distinct(slots) ==
    [i \in 1..Len(slots) |->
        Cardinality({ slots[i].options[k] : k \in 1..Len(slots[i].options) })]

SlotSizes(slots) == [i \in 1..Len(slots) |-> Len(slots[i].options)]
\* Mutant: a generator without slots has no options.
HasOptions_NeedsASlot(slot_sizes) ==
    /\ Len(slot_sizes) > 0
    /\ \A i \in 1..Len(slot_sizes) : slot_sizes[i] > 0

HasOptions(slot_sizes) == \A i \in 1..Len(slot_sizes) : slot_sizes[i] > 0

\* Mutant: the exhaustion flag is not set at construction.
WordIterNew_NotDone(g) ==
    [live |-> TRUE,
     current_indices |-> [i \in 1..Len(g.slots) |-> 0],
     slot_sizes |-> SlotSizes(g.slots),
     done |-> FALSE]

\* Mutant: a new iterator resumes where the one dropped before it stood.
WordIterNew_Resumes(g) ==
    IF prev.kind = "iter"
    THEN [prev.it EXCEPT !.live = TRUE]
    ELSE [live |-> TRUE,
          current_indices |-> [i \in 1..Len(g.slots) |-> 0],
          slot_sizes |-> SlotSizes(g.slots),
          done |-> ~HasOptions(SlotSizes(g.slots))]

\* WordIter::new
WordIterNew(g) ==
    [live |-> TRUE,
     current_indices |-> [i \in 1..Len(g.slots) |-> 0],
     slot_sizes |-> SlotSizes(g.slots),
     done |-> ~HasOptions(SlotSizes(g.slots))]

\* slots[slot_idx].options[char_idx] is in range for every position of the
\* index vector; the indexing panics otherwise.
IndicesInRange(slots, current_indices) ==
    /\ Len(current_indices) <= Len(slots)
    /\ \A i \in 1..Len(current_indices) :
          current_indices[i] < Len(slots[i].options)

\* Mutant: the word is built from each slot's own cursor onwards.
WordIterBuildWord_FromCursor(g, it) ==
    [i \in 1..Len(it.current_indices) |->
        g.slots[i].options[
            ((it.current_indices[i] + g.slots[i].current)
                % Len(g.slots[i].options)) + 1]]

\* WordIter::build_word
WordIterBuildWord(g, it) ==
    [i \in 1..Len(it.current_indices) |->
        g.slots[i].options[it.current_indices[i] + 1]]

\* Mutant: the overflow test lets an index reach the slot's size.
RECURSIVE WordIterIncrementFrom_OffByOne(_, _)
WordIterIncrementFrom_OffByOne(it, i) ==
    IF i = 0
    THEN [it |-> [it EXCEPT !.done = TRUE], has_next |-> FALSE]
    ELSE LET bumped == [it EXCEPT !.current_indices[i] = @ + 1]
         IN  IF bumped.current_indices[i] <= bumped.slot_sizes[i]
             THEN [it |-> bumped, has_next |-> TRUE]
             ELSE WordIterIncrementFrom_OffByOne(
                      [bumped EXCEPT !.current_indices[i] = 0], i - 1)

\* WordIter::increment, the loop from position i down to the first slot
RECURSIVE WordIterIncrementFrom(_, _)
WordIterIncrementFrom(it, i) ==
    IF i = 0
    THEN [it |-> [it EXCEPT !.done = TRUE], has_next |-> FALSE]
    ELSE LET bumped == [it EXCEPT !.current_indices[i] = @ + 1]
         IN  IF bumped.current_indices[i] < bumped.slot_sizes[i]
             THEN [it |-> bumped, has_next |-> TRUE]
             ELSE WordIterIncrementFrom(
                      [bumped EXCEPT !.current_indices[i] = 0], i - 1)

\* Mutant: the carry past the first slot wraps to all zeros without setting
\* done.
WordIterIncrement_Wraps(it) ==
    LET r == WordIterIncrementFrom(it, Len(it.current_indices))
    IN  [it |-> [r.it EXCEPT !.done = it.done], has_next |-> r.has_next]

\* WordIter::increment
WordIterIncrement(it) == WordIterIncrementFrom(it, Len(it.current_indices))

\* Mutant: every candidate passes.
WordIterAccepts_Always(word_list, word) == TRUE

\* Mutant: an empty list is a filter like any other, nothing passes it.
WordIterAccepts_NoEmptyBypass(word_list, word) ==
    IF word_list.some THEN word \in word_list.val ELSE TRUE

\* The filter test of WordIter::next on one candidate
WordIterAccepts(word_list, word) ==
    IF word_list.some
    THEN word_list.val = {} \/ word \in word_list.val
    ELSE TRUE

\* Mutant: the loop stops when increment overflows, before it tests the
\* candidate it built last.
RECURSIVE WordIterLoop_StopsBeforeLast(_, _, _)
WordIterLoop_StopsBeforeLast(g, it, visited) ==
    IF ~IndicesInRange(g.slots, it.current_indices)
    THEN [it |-> it, ret |-> None, visited |-> visited, panic |-> TRUE]
    ELSE
    LET word == WordIterBuildWord(g, it)
        inc == WordIterIncrement(it)
        seen == Append(visited, word)
    IN  IF ~inc.has_next
        THEN [it |-> inc.it, ret |-> None, visited |-> seen, panic |-> FALSE]
        ELSE IF WordIterAccepts(g.word_list, word)
             THEN [it |-> inc.it, ret |-> Some(word), visited |-> seen,
                   panic |-> FALSE]
             ELSE WordIterLoop_StopsBeforeLast(g, inc.it, seen)

\* Mutant: after a candidate passes, the loop runs on over the rejected
\* candidates that follow it and stops in front of the next passing one.
RECURSIVE WordIterSkipRejected(_, _, _)
WordIterSkipRejected(g, it, visited) ==
    IF it.done \/ ~IndicesInRange(g.slots, it.current_indices)
       \/ WordIterAccepts(g.word_list, WordIterBuildWord(g, it))
    THEN [it |-> it, visited |-> visited]
    ELSE WordIterSkipRejected(g, WordIterIncrement(it).it,
                              Append(visited, WordIterBuildWord(g, it)))

RECURSIVE WordIterLoop_ScansAhead(_, _, _)
WordIterLoop_ScansAhead(g, it, visited) ==
    IF ~IndicesInRange(g.slots, it.current_indices)
    THEN [it |-> it, ret |-> None, visited |-> visited, panic |-> TRUE]
    ELSE
    LET word == WordIterBuildWord(g, it)
        inc == WordIterIncrement(it)
        seen == Append(visited, word)
        ahead == WordIterSkipRejected(g, inc.it, seen)
    IN  IF WordIterAccepts(g.word_list, word)
        THEN [it |-> ahead.it, ret |-> Some(word), visited |-> ahead.visited,
              panic |-> FALSE]
        ELSE IF ~inc.has_next
             THEN [it |-> inc.it, ret |-> None, visited |-> seen, panic |-> FALSE]
             ELSE WordIterLoop_ScansAhead(g, inc.it, seen)

\* WordIter::next, the loop: visited collects the candidates built
RECURSIVE WordIterLoop(_, _, _)
WordIterLoop(g, it, visited) ==
    IF ~IndicesInRange(g.slots, it.current_indices)
    THEN [it |-> it, ret |-> None, visited |-> visited, panic |-> TRUE]
    ELSE
    LET word == WordIterBuildWord(g, it)
        inc == WordIterIncrement(it)
        seen == Append(visited, word)
    IN  IF WordIterAccepts(g.word_list, word)
        THEN [it |-> inc.it, ret |-> Some(word), visited |-> seen, panic |-> FALSE]
        ELSE IF ~inc.has_next
             THEN [it |-> inc.it, ret |-> None, visited |-> seen, panic |-> FALSE]
             ELSE WordIterLoop(g, inc.it, seen)

\* WordIter::next
WordIterNextFn(g, it) ==
    IF it.done
    THEN [it |-> it, ret |-> None, visited |-> <<>>, panic |-> FALSE]
    ELSE WordIterLoop(g, it, <<>>)

\* AllCombinationsIter::new
AllCombinationsIterNew(slots) ==
    [live |-> TRUE,
     current_indices |-> [i \in 1..Len(slots) |-> 0],
     slot_sizes |-> SlotSizes(slots),
     done |-> ~HasOptions(SlotSizes(slots))]

\* AllCombinationsIter::build_word
AllCombinationsIterBuildWord(slots, it) ==
    [i \in 1..Len(it.current_indices) |->
        slots[i].options[it.current_indices[i] + 1]]

\* AllCombinationsIter::increment, the loop from position i down to the first slot
RECURSIVE AllCombinationsIterIncrementFrom(_, _)
AllCombinationsIterIncrementFrom(it, i) ==
    IF i = 0
    THEN [it |-> [it EXCEPT !.done = TRUE], has_next |-> FALSE]
    ELSE LET bumped == [it EXCEPT !.current_indices[i] = @ + 1]
         IN  IF bumped.current_indices[i] < bumped.slot_sizes[i]
             THEN [it |-> bumped, has_next |-> TRUE]
             ELSE AllCombinationsIterIncrementFrom(
                      [bumped EXCEPT !.current_indices[i] = 0], i - 1)

\* Mutant: no carry, the enumeration ends when the last slot overflows.
AllCombinationsIterIncrement_NoCarry(it) ==
    LET k == Len(it.current_indices)
    IN  IF k > 0 /\ it.current_indices[k] + 1 < it.slot_sizes[k]
        THEN [it |-> [it EXCEPT !.current_indices[k] = @ + 1], has_next |-> TRUE]
        ELSE [it |-> [it EXCEPT !.done = TRUE], has_next |-> FALSE]

\* Mutant: the first slot is the least significant one.
RECURSIVE AllCombinationsIterIncrementUpFrom(_, _)
AllCombinationsIterIncrementUpFrom(it, i) ==
    IF i > Len(it.current_indices)
    THEN [it |-> [it EXCEPT !.done = TRUE], has_next |-> FALSE]
    ELSE LET bumped == [it EXCEPT !.current_indices[i] = @ + 1]
         IN  IF bumped.current_indices[i] < bumped.slot_sizes[i]
             THEN [it |-> bumped, has_next |-> TRUE]
             ELSE AllCombinationsIterIncrementUpFrom(
                      [bumped EXCEPT !.current_indices[i] = 0], i + 1)

AllCombinationsIterIncrement_FirstSlotFastest(it) ==
    AllCombinationsIterIncrementUpFrom(it, 1)

AllCombinationsIterIncrement(it) ==
    AllCombinationsIterIncrementFrom(it, Len(it.current_indices))

\* Mutant: the unfiltered iterator consults the generator's word list like
\* WordIter does.
AllCombinationsIterNextFn_Filtered(slots, it) ==
    LET r == WordIterNextFn([slots |-> slots, word_list |-> generator.word_list], it)
    IN  [it |-> r.it, ret |-> r.ret, panic |-> r.panic]

\* AllCombinationsIter::next
AllCombinationsIterNextFn(slots, it) ==
    IF it.done
    THEN [it |-> it, ret |-> None, panic |-> FALSE]
    ELSE IF ~IndicesInRange(slots, it.current_indices)
    THEN [it |-> it, ret |-> None, panic |-> TRUE]
    ELSE [it |-> AllCombinationsIterIncrement(it).it,
          ret |-> Some(AllCombinationsIterBuildWord(slots, it)),
          panic |-> FALSE]

\* What a next() call adds to an iterator's log.
Logged(log, ret, visited) ==
    [out |-> IF ret.some THEN Append(log.out, ret.val) ELSE log.out,
     visited |-> log.visited \o visited,
     nones |-> IF ret.some THEN log.nones ELSE log.nones + 1,
     ret |-> ret]

\* A call on the generator: a constructor or a &mut self method.
Call(op, word_list, path, ok) ==
    [op |-> op, word_list |-> word_list, path |-> path, ok |-> ok]

\* The iterator dropped last since the word list was last set: which method
\* made it, what it returned, whether it had returned None, and where it stood.
\* `keep` says whether the caller keeps what its iterators returned.
NoPrev ==
    [keep |-> FALSE, kind |-> "none", out |-> <<>>, drained |-> FALSE,
     it |-> NoIter]

Kept(p, kind, log, it) ==
    IF p.keep
    THEN [p EXCEPT !.kind = kind, !.out = log.out, !.drained = log.nones > 0,
                   !.it = it]
    ELSE p

\* What was kept is of the generator as it was: a changed generator forgets it.
Forget(p, g_old, g_new) ==
    IF g_new = g_old THEN p ELSE [NoPrev EXCEPT !.keep = p.keep]

\* ------------------------------------------------------------------- main
\* The exit status of std::process::exit(1) and of main returning Err, and
\* the exit status of main returning Ok(()).
ExitFailure == 1
ExitSuccess == 0

\* struct Args, with where main stands, its exit status and its standard
\* output; "none": the program was not started.
NoMain ==
    [pc |-> "none", char_sets |-> <<>>, word_list |-> None,
     all_combinations |-> FALSE, exit |-> ExitSuccess, stdout |-> <<>>]

\* The positional arguments: none, one set, the doc example's and the tests'
\* sets, and an empty string among the sets.
ArgCharSets ==
    { <<>>, << <<"a", "b">> >>, << <<"a", "b">>, <<>> >>, DocOptions, TestOptions }

ArgWordLists == {None} \cup { Some(path) : path \in Paths }

\* args.char_sets.iter().map(|s| Slot::new(s.chars().collect())).collect()
MainSlots(char_sets) == [i \in 1..Len(char_sets) |-> SlotNewFn(char_sets[i])]

\* if args.all_combinations { with_no_filtering(slots) } else { with_slots(slots) }
MainGenerator(m, slots) ==
    IF m.all_combinations
    THEN WordGeneratorWithNoFiltering(slots)
    ELSE WordGeneratorWithSlots(slots)

\* Mutant: with --all-combinations the word list file is not read.
MainLoadFn_NotWhenUnfiltered(m, g) ==
    IF m.word_list.some /\ ~m.all_combinations
    THEN LoadWordListFromFileFn(g, m.word_list.val)
    ELSE [generator |-> g, ok |-> TRUE]

\* if let Some(path) = args.word_list { generator.load_word_list_from_file(&path)? }
MainLoadFn(m, g) ==
    IF m.word_list.some
    THEN LoadWordListFromFileFn(g, m.word_list.val)
    ELSE [generator |-> g, ok |-> TRUE]

\* println!("{}", word)
Println(stdout, word) == stdout \o word \o <<"\n">>

\* -------------------------------------------------------------------- Init
\* The caller starts with an empty vector, or with the slots of the tests, of
\* the doc example or with duplicate candidates already in it (each fresh from
\* Slot::new).
Fixtures ==
    { <<>>,
      [i \in 1..Len(TestOptions) |-> SlotNewFn(TestOptions[i])],
      [i \in 1..Len(DocOptions) |-> SlotNewFn(DocOptions[i])],
      [i \in 1..Len(DupOptions) |-> SlotNewFn(DupOptions[i])] }

\* The caller holds no Slot yet, or holds a fresh one with duplicate
\* candidates next to the vector of duplicates.
DupFixture == [i \in 1..Len(DupOptions) |-> SlotNewFn(DupOptions[i])]

Starts ==
    { [slot_vec |-> f, slot |-> NoSlot, slot_log |-> NoSlotLog] : f \in Fixtures }
    \cup { [slot_vec |-> DupFixture, slot |-> SlotNewFn(DupOptions[2]),
            slot_log |-> SlotLogNew(DupOptions[2])] }

Init ==
    /\ pc = "build"
    /\ \E st \in Starts :
          /\ slot = st.slot
          /\ slot_vec = st.slot_vec
          /\ slot_log = st.slot_log
    /\ prev = NoPrev
    /\ main = NoMain
    /\ generator = NoGenerator
    /\ word_iter = NoIter
    /\ all_iter = NoIter
    /\ iter_log = NoLog
    /\ all_log = NoLog
    /\ last_call = Call("none", NoSet, "", TRUE)

\* ----------------------------------------------------------------- actions
\* let slot = Slot::new(options)
SlotNew(options) ==
    /\ pc = "build"
    /\ ~slot.live
    /\ Len(slot_vec) < MaxSlots
    /\ slot' = SlotNewFn(options)
    /\ slot_log' = SlotLogNew(options)
    /\ UNCHANGED <<prev, main, pc, slot_vec, generator, word_iter, all_iter,
                   iter_log, all_log, last_call>>

\* slot.next()
SlotNext ==
    /\ pc = "build"
    /\ slot.live
    /\ slot_log.nones < MaxNones
    /\ slot' = SlotNextFn(slot).slot
    /\ slot_log' = SlotLogged(slot_log, "next", SlotNextFn(slot).ret)
    /\ UNCHANGED <<prev, main, pc, slot_vec, generator, word_iter, all_iter,
                   iter_log, all_log, last_call>>

\* slots.push(slot): the slot moves into the vector
SlotPush ==
    /\ pc = "build"
    /\ slot.live
    /\ slot_vec' = Append(slot_vec, slot)
    /\ slot' = NoSlot
    /\ slot_log' = NoSlotLog
    /\ UNCHANGED <<prev, main, pc, generator, word_iter, all_iter, iter_log,
                   all_log, last_call>>

\* *slot, and slot.to_string() which reaches char's to_string through Deref;
\* a panic ends the program
SlotDeref ==
    /\ pc = "build"
    /\ slot.live
    /\ LET r == SlotDerefFn(slot)
       IN  /\ slot_log' = IF r.panic THEN [slot_log EXCEPT !.op = "deref"]
                          ELSE [slot_log EXCEPT !.op = "deref", !.ch = r.ret]
           /\ pc' = IF r.panic THEN "panicked" ELSE pc
    /\ UNCHANGED <<slot, slot_vec, generator, word_iter, all_iter, iter_log,
                   all_log, last_call, prev, main>>

\* String::from(slot): the slot moves into the conversion; a panic ends the
\* program
SlotIntoString ==
    /\ pc = "build"
    /\ slot.live
    /\ LET r == SlotIntoStringFn(slot)
       IN  /\ slot_log' = IF r.panic THEN [slot_log EXCEPT !.op = "into_string"]
                          ELSE [slot_log EXCEPT !.op = "into_string",
                                                !.str = r.ret]
           /\ pc' = IF r.panic THEN "panicked" ELSE pc
    /\ slot' = NoSlot
    /\ UNCHANGED <<slot_vec, generator, word_iter, all_iter, iter_log,
                   all_log, last_call, prev, main>>

\* WordGenerator::new(slots, word_list): the vector moves into the generator
New(word_list) ==
    /\ pc = "build"
    /\ ~slot.live
    /\ generator' = WordGeneratorNew(slot_vec, word_list)
    /\ slot_vec' = <<>>
    /\ pc' = "ready"
    /\ last_call' = Call("new", word_list, "", TRUE)
    /\ slot_log' = NoSlotLog
    /\ UNCHANGED <<prev, main, slot, word_iter, all_iter, iter_log, all_log>>

\* WordGenerator::with_slots(slots)
WithSlots ==
    /\ pc = "build"
    /\ ~slot.live
    /\ generator' = WordGeneratorWithSlots(slot_vec)
    /\ slot_vec' = <<>>
    /\ pc' = "ready"
    /\ last_call' = Call("with_slots", NoSet, "", TRUE)
    /\ slot_log' = NoSlotLog
    /\ UNCHANGED <<prev, main, slot, word_iter, all_iter, iter_log, all_log>>

\* WordGenerator::with_no_filtering(slots)
WithNoFiltering ==
    /\ pc = "build"
    /\ ~slot.live
    /\ generator' = WordGeneratorWithNoFiltering(slot_vec)
    /\ slot_vec' = <<>>
    /\ pc' = "ready"
    /\ last_call' = Call("with_no_filtering", NoSet, "", TRUE)
    /\ slot_log' = NoSlotLog
    /\ UNCHANGED <<prev, main, slot, word_iter, all_iter, iter_log, all_log>>

\* generator.load_word_list_from_file(path): &mut self, so no iterator is alive
LoadWordListFromFile(path) ==
    /\ pc = "ready"
    /\ ~word_iter.live /\ ~all_iter.live
    /\ generator' = LoadWordListFromFileFn(generator, path).generator
    /\ last_call' = Call("load_word_list_from_file", NoSet, path,
                         LoadWordListFromFileFn(generator, path).ok)
    /\ prev' = Forget(prev, generator, generator')
    /\ UNCHANGED <<slot_log, main, pc, slot, slot_vec, word_iter, all_iter,
                   iter_log, all_log>>

\* generator.set_word_list(word_list): &mut self, so no iterator is alive
SetWordList(word_list) ==
    /\ pc = "ready"
    /\ ~word_iter.live /\ ~all_iter.live
    /\ generator' = SetWordListFn(generator, word_list)
    /\ last_call' = Call("set_word_list", Some(word_list), "", TRUE)
    /\ prev' = Forget(prev, generator, generator')
    /\ UNCHANGED <<slot_log, main, pc, slot, slot_vec, word_iter, all_iter,
                   iter_log, all_log>>

\* let it = generator.iter(): the caller holds one iterator at a time
Iter ==
    /\ pc = "ready"
    /\ ~word_iter.live /\ ~all_iter.live
    /\ word_iter' = WordIterNew(generator)
    /\ iter_log' = NoLog
    /\ UNCHANGED <<slot_log, prev, main, pc, slot, slot_vec, generator,
                   all_iter, all_log, last_call>>

\* let it = generator.all_combinations(): the caller holds one iterator at a time
AllCombinations ==
    /\ pc = "ready"
    /\ ~word_iter.live /\ ~all_iter.live
    /\ all_iter' = AllCombinationsIterNew(generator.slots)
    /\ all_log' = NoLog
    /\ UNCHANGED <<slot_log, prev, main, pc, slot, slot_vec, generator,
                   word_iter, iter_log, last_call>>

\* it.next() on the WordIter; a panic ends the program
WordIterNext ==
    /\ pc = "ready"
    /\ word_iter.live
    /\ iter_log.nones < MaxNones
    /\ LET r == WordIterNextFn(generator, word_iter)
       IN  /\ word_iter' = r.it
           /\ iter_log' = IF r.panic THEN iter_log
                          ELSE Logged(iter_log, r.ret, r.visited)
           /\ pc' = IF r.panic THEN "panicked" ELSE pc
    /\ UNCHANGED <<slot_log, prev, main, slot, slot_vec, generator, all_iter,
                   all_log, last_call>>

\* it.next() on the AllCombinationsIter; a panic ends the program
AllCombinationsIterNext ==
    /\ pc = "ready"
    /\ all_iter.live
    /\ all_log.nones < MaxNones
    /\ LET r == AllCombinationsIterNextFn(generator.slots, all_iter)
       IN  /\ all_iter' = r.it
           /\ all_log' = IF r.panic THEN all_log
                         ELSE Logged(all_log, r.ret, <<>>)
           /\ pc' = IF r.panic THEN "panicked" ELSE pc
    /\ UNCHANGED <<slot_log, prev, main, slot, slot_vec, generator,
                   word_iter, iter_log, last_call>>

\* the WordIter goes out of scope
DropWordIter ==
    /\ pc = "ready"
    /\ word_iter.live
    /\ word_iter' = NoIter
    /\ iter_log' = NoLog
    /\ prev' = Kept(prev, "iter", iter_log, word_iter)
    /\ UNCHANGED <<slot_log, main, pc, slot, slot_vec, generator, all_iter,
                   all_log, last_call>>

\* the AllCombinationsIter goes out of scope
DropAllCombinationsIter ==
    /\ pc = "ready"
    /\ all_iter.live
    /\ all_iter' = NoIter
    /\ all_log' = NoLog
    /\ prev' = Kept(prev, "all_combinations", all_log, all_iter)
    /\ UNCHANGED <<slot_log, main, pc, slot, slot_vec, generator, word_iter,
                   iter_log, last_call>>

Next ==
    \/ \E options \in CandidateLists : SlotNew(options)
    \/ SlotNext
    \/ SlotDeref
    \/ SlotIntoString
    \/ SlotPush
    \/ \E word_list \in {NoSet} \cup { Some(s) : s \in WordSets } : New(word_list)
    \/ WithSlots
    \/ WithNoFiltering
    \/ \E path \in Paths : LoadWordListFromFile(path)
    \/ \E word_list \in WordSets : SetWordList(word_list)
    \/ Iter
    \/ AllCombinations
    \/ WordIterNext
    \/ AllCombinationsIterNext
    \/ DropWordIter
    \/ DropAllCombinationsIter

Spec == Init /\ [][Next]_vars

\* A caller that builds one generator from ready slots and enumerates it again
\* and again, keeping what each iterator returned.
InitReuse ==
    /\ pc = "build"
    /\ slot = NoSlot
    /\ slot_log = NoSlotLog
    /\ slot_vec \in Fixtures \ {[i \in 1..Len(TestOptions) |-> SlotNewFn(TestOptions[i])]}
    /\ generator = NoGenerator
    /\ word_iter = NoIter
    /\ all_iter = NoIter
    /\ iter_log = NoLog
    /\ all_log = NoLog
    /\ last_call = Call("none", NoSet, "", TRUE)
    /\ prev = [NoPrev EXCEPT !.keep = TRUE]
    /\ main = NoMain

NextReuse ==
    \/ \E word_list \in {NoSet} \cup { Some(s) : s \in WordSets } : New(word_list)
    \/ WithSlots
    \/ WithNoFiltering
    \/ \E path \in Paths : LoadWordListFromFile(path)
    \/ \E word_list \in WordSets : SetWordList(word_list)
    \/ Iter
    \/ AllCombinations
    \/ WordIterNext
    \/ AllCombinationsIterNext
    \/ DropWordIter
    \/ DropAllCombinationsIter

SpecReuse == InitReuse /\ [][NextReuse]_vars

\* ------------------------------------------------------ the program main
\* argh::from_env() has parsed the arguments
InitMain ==
    /\ pc = "build"
    /\ slot = NoSlot
    /\ slot_log = NoSlotLog
    /\ slot_vec = <<>>
    /\ generator = NoGenerator
    /\ word_iter = NoIter
    /\ all_iter = NoIter
    /\ iter_log = NoLog
    /\ all_log = NoLog
    /\ last_call = Call("none", NoSet, "", TRUE)
    /\ prev = NoPrev
    /\ \E c \in ArgCharSets, w \in ArgWordLists, a \in BOOLEAN :
          main = [NoMain EXCEPT !.pc = "start", !.char_sets = c,
                                !.word_list = w, !.all_combinations = a]

\* if args.char_sets.is_empty() { eprintln!(..); std::process::exit(1) }
MainCheckArgs ==
    /\ main.pc = "start"
    /\ main' = IF main.char_sets = <<>>
               THEN [main EXCEPT !.pc = "exited", !.exit = ExitFailure]
               ELSE [main EXCEPT !.pc = "slots"]
    /\ UNCHANGED <<pc, slot, slot_vec, generator, word_iter, all_iter, iter_log,
                   all_log, last_call, slot_log, prev>>

\* let slots: Vec<Slot> = ...
MainBuildSlots ==
    /\ main.pc = "slots"
    /\ slot_vec' = MainSlots(main.char_sets)
    /\ main' = [main EXCEPT !.pc = "construct"]
    /\ UNCHANGED <<pc, slot, generator, word_iter, all_iter, iter_log, all_log,
                   last_call, slot_log, prev>>

\* let mut generator = ...
MainConstruct ==
    /\ main.pc = "construct"
    /\ generator' = MainGenerator(main, slot_vec)
    /\ slot_vec' = <<>>
    /\ pc' = "ready"
    /\ last_call' = Call(IF main.all_combinations THEN "with_no_filtering"
                         ELSE "with_slots", NoSet, "", TRUE)
    /\ main' = [main EXCEPT !.pc = "load"]
    /\ UNCHANGED <<slot, word_iter, all_iter, iter_log, all_log, slot_log, prev>>

\* the optional load; its error leaves main through `?`
MainLoad ==
    /\ main.pc = "load"
    /\ LET r == MainLoadFn(main, generator)
       IN  /\ generator' = r.generator
           /\ last_call' = IF main.word_list.some
                            THEN Call("load_word_list_from_file", NoSet,
                                      main.word_list.val, r.ok)
                            ELSE last_call
           /\ main' = IF r.ok
                      THEN [main EXCEPT !.pc = "enumerate"]
                      ELSE [main EXCEPT !.pc = "exited", !.exit = ExitFailure]
    /\ UNCHANGED <<pc, slot, slot_vec, word_iter, all_iter, iter_log, all_log,
                   slot_log, prev>>

\* generator.all_combinations() or generator.iter(), the head of the for loop
MainEnumerate ==
    /\ main.pc = "enumerate"
    /\ IF main.all_combinations
       THEN /\ all_iter' = AllCombinationsIterNew(generator.slots)
            /\ UNCHANGED word_iter
       ELSE /\ word_iter' = WordIterNew(generator)
            /\ UNCHANGED all_iter
    /\ main' = [main EXCEPT !.pc = "print"]
    /\ UNCHANGED <<pc, slot, slot_vec, generator, iter_log, all_log, last_call,
                   slot_log, prev>>

\* one round of the for loop: next(), then println! or the end of the loop
\* and Ok(()); a panic ends the program
MainPrint ==
    /\ main.pc = "print"
    /\ LET r == IF main.all_combinations
                THEN AllCombinationsIterNextFn(generator.slots, all_iter)
                ELSE [it |-> WordIterNextFn(generator, word_iter).it,
                      ret |-> WordIterNextFn(generator, word_iter).ret,
                      panic |-> WordIterNextFn(generator, word_iter).panic]
       IN  /\ IF main.all_combinations
              THEN all_iter' = r.it /\ UNCHANGED word_iter
              ELSE word_iter' = r.it /\ UNCHANGED all_iter
           /\ pc' = IF r.panic THEN "panicked" ELSE pc
           /\ main' = IF r.panic THEN [main EXCEPT !.pc = "panicked"]
                      ELSE IF r.ret.some
                      THEN [main EXCEPT !.stdout = Println(@, r.ret.val)]
                      ELSE [main EXCEPT !.pc = "exited", !.exit = ExitSuccess]
    /\ UNCHANGED <<slot, slot_vec, generator, iter_log, all_log, last_call,
                   slot_log, prev>>

NextMain ==
    \/ MainCheckArgs
    \/ MainBuildSlots
    \/ MainConstruct
    \/ MainLoad
    \/ MainEnumerate
    \/ MainPrint

SpecMain == InitMain /\ [][NextMain]_vars

\* ------------------------------------------------- reference definitions
\* The Cartesian product in odometer order, defined by position arithmetic
\* (no stepping): the n-th combination, counted from 0, has at slot i the
\* digit of n whose weight is the product of the later slots' sizes.
OptionsOf(slots) == [i \in 1..Len(slots) |-> slots[i].options]

RECURSIVE ProductFrom(_, _)
ProductFrom(sizes, i) ==
    IF i > Len(sizes) THEN 1 ELSE sizes[i] * ProductFrom(sizes, i + 1)

Product(sizes) == ProductFrom(sizes, 1)
Weight(sizes, i) == ProductFrom(sizes, i + 1)

Sizes(options) == [i \in 1..Len(options) |-> Len(options[i])]

IndexVector(options, n) ==
    [i \in 1..Len(options) |->
        (n \div Weight(Sizes(options), i)) % Len(options[i])]

Combination(options, n) ==
    [i \in 1..Len(options) |-> options[i][IndexVector(options, n)[i] + 1]]

Odometer(options) ==
    [n \in 1..Product(Sizes(options)) |-> Combination(options, n - 1)]

\* The members of `set` in `seq`, in order, each as often as it occurs.
RECURSIVE Members(_, _)
Members(seq, set) ==
    IF seq = <<>> THEN <<>>
    ELSE IF Head(seq) \in set
         THEN <<Head(seq)>> \o Members(Tail(seq), set)
         ELSE Members(Tail(seq), set)

\* `sub` is `seq` with some elements left out, the order kept.
RECURSIVE IsSubsequence(_, _)
IsSubsequence(sub, seq) ==
    IF sub = <<>> THEN TRUE
    ELSE IF seq = <<>> THEN FALSE
    ELSE IF Head(sub) = Head(seq)
         THEN IsSubsequence(Tail(sub), Tail(seq))
         ELSE IsSubsequence(sub, Tail(seq))

IsPrefix(pre, seq) ==
    Len(pre) <= Len(seq) /\ pre = SubSeq(seq, 1, Len(pre))

Range(seq) == { seq[i] : i \in 1..Len(seq) }

\* The iterator returned None at least once: it was drained.
AllDrained == all_iter.live /\ all_log.nones > 0
IterDrained == word_iter.live /\ iter_log.nones > 0

GenOptions == OptionsOf(generator.slots)
GenSizes == Sizes(GenOptions)

\* ------------------------------------------------------------------ claims
\* C1: draining all_combinations() yields exactly n0*n1*...*nk strings before
\* it returns None, never more while it runs, and every yielded string has
\* one character per slot, the i-th being one of slot i's candidates.
C1_Cardinality ==
    all_iter.live =>
        /\ Len(all_log.out) <= Product(GenSizes)
        /\ (all_log.nones > 0 => Len(all_log.out) = Product(GenSizes))
        /\ \A n \in 1..Len(all_log.out) :
              /\ Len(all_log.out[n]) = Len(generator.slots)
              /\ \A i \in 1..Len(generator.slots) :
                    all_log.out[n][i] \in Range(generator.slots[i].options)

\* C1 witness: all_combinations() drained over slots with different candidate
\* counts (2 and 3), six strings yielded.
C1_Witness ==
    /\ AllDrained
    /\ GenSizes = <<2, 3>>
    /\ Len(all_log.out) = 6

\* The 27 words of test_generate, in the order the test expects them.
ExpectedTestWords ==
    << <<"c","a","t">>, <<"c","a","s">>, <<"c","a","e">>,
       <<"c","i","t">>, <<"c","i","s">>, <<"c","i","e">>,
       <<"c","o","t">>, <<"c","o","s">>, <<"c","o","e">>,
       <<"b","a","t">>, <<"b","a","s">>, <<"b","a","e">>,
       <<"b","i","t">>, <<"b","i","s">>, <<"b","i","e">>,
       <<"b","o","t">>, <<"b","o","s">>, <<"b","o","e">>,
       <<"r","a","t">>, <<"r","a","s">>, <<"r","a","e">>,
       <<"r","i","t">>, <<"r","i","s">>, <<"r","i","e">>,
       <<"r","o","t">>, <<"r","o","s">>, <<"r","o","e">> >>

\* C2: the unfiltered enumeration is in odometer order: the n-th string
\* yielded is the combination at mixed-radix position n-1 with the last slot
\* least significant (the first uses index 0 of every slot); while the
\* iterator is not exhausted its index vector is the position of the next
\* string; it is exhausted exactly when a slot is empty or the carry passed
\* the first slot, which is after the whole product; and the slots of
\* test_generate give cat, cas, cae, cit, ... roe, 27 strings.
C2_OdometerOrder ==
    all_iter.live =>
        /\ IsPrefix(all_log.out, Odometer(GenOptions))
        /\ (all_log.out # <<>> =>
                all_log.out[1] = [i \in 1..Len(GenOptions) |-> GenOptions[i][1]])
        /\ (~all_iter.done =>
                all_iter.current_indices = IndexVector(GenOptions, Len(all_log.out)))
        /\ (all_iter.done <=>
                \/ \E i \in 1..Len(GenSizes) : GenSizes[i] = 0
                \/ Len(all_log.out) = Product(GenSizes))
        /\ (all_iter.done => \A i \in 1..Len(GenSizes) : all_iter.current_indices[i] = 0)
        /\ (AllDrained /\ GenOptions = TestOptions => all_log.out = ExpectedTestWords)

\* C2 witness: the test's slots drained, 27 strings, the last one roe.
C2_Witness ==
    /\ AllDrained
    /\ GenOptions = TestOptions
    /\ Len(all_log.out) = 27
    /\ all_log.out[27] = <<"r", "o", "e">>

HasEmptySlot == \E i \in 1..Len(GenSizes) : GenSizes[i] = 0
\* The generator filters against a non-empty reference set.
NonEmptyFilter == generator.word_list.some /\ generator.word_list.val # {}

\* C3: with a non-empty reference set R, every string iter() yields is a
\* member of R and a combination of the unfiltered enumeration, and the yielded
\* sequence is the unfiltered sequence with elements left out, order kept.
C3_FilteredIsSubsequence ==
    (word_iter.live /\ NonEmptyFilter) =>
        /\ \A n \in 1..Len(iter_log.out) :
              /\ iter_log.out[n] \in generator.word_list.val
              /\ iter_log.out[n] \in Range(Odometer(GenOptions))
        /\ IsSubsequence(iter_log.out, Odometer(GenOptions))

\* C3 witness: iter() drained under a non-empty set, having yielded two of
\* the four combinations (aa, ab, ba, bb) and skipped the other two.
C3_Witness ==
    /\ IterDrained
    /\ NonEmptyFilter
    /\ GenOptions = << <<"a", "b">>, <<"a", "b">> >>
    /\ iter_log.out = << <<"a", "b">>, <<"b", "b">> >>

\* C4: with a non-empty reference set R, iter() yields the members of R among
\* the combinations, all of them and in order: what it has yielded so far is a
\* prefix of the members, and once drained it is exactly the members, the last
\* combination included; the doc example's slots with R = {cat, dog} give
\* exactly {cat, dog}.
C4_FilteredIsComplete ==
    (word_iter.live /\ NonEmptyFilter) =>
        /\ IsPrefix(iter_log.out, Members(Odometer(GenOptions), generator.word_list.val))
        /\ (iter_log.nones > 0 =>
                iter_log.out = Members(Odometer(GenOptions), generator.word_list.val))
        /\ (iter_log.nones > 0 /\ GenOptions = DocOptions
                /\ generator.word_list.val = CatDog =>
                Range(iter_log.out) = CatDog /\ Len(iter_log.out) = 2)

\* C4 witness: the doc example drained: cat, the first combination, then a
\* run of non-members, then dog, the very last combination of the product.
C4_Witness ==
    /\ IterDrained
    /\ GenOptions = DocOptions
    /\ generator.word_list.val = CatDog
    /\ iter_log.out = << <<"c", "a", "t">>, <<"d", "o", "g">> >>
    /\ Odometer(DocOptions)[8] = <<"d", "o", "g">>

\* The generator was constructed with an explicitly empty reference set and
\* its list was not replaced since.
ConstructedEmpty ==
    \/ last_call.op = "with_no_filtering"
    \/ last_call.op = "new" /\ last_call.word_list = Some({})

\* C5: a generator constructed with an explicitly empty reference set yields
\* from iter() the unfiltered enumeration: the same strings in the same order
\* while it runs, and the same count once drained.
C5_EmptySetDisablesFilter ==
    (pc = "ready" /\ ConstructedEmpty) =>
        /\ generator.word_list = Some({})
        /\ (word_iter.live =>
                /\ IsPrefix(iter_log.out, Odometer(GenOptions))
                /\ (iter_log.nones > 0 => iter_log.out = Odometer(GenOptions)))

\* C5 witness: with_no_filtering over the test's slots, iter() drained after
\* 27 strings.
C5_Witness ==
    /\ IterDrained
    /\ last_call.op = "with_no_filtering"
    /\ GenOptions = TestOptions
    /\ Len(iter_log.out) = 27

\* C6: if any slot has zero candidates, an iterator of either kind is
\* exhausted from its construction on, under every filter state: its flag is
\* set in every state in which it is alive, it has yielded nothing and built
\* no word, and every next() call returned None.
C6_EmptySlotExhaustsAtConstruction ==
    (pc = "ready" /\ HasEmptySlot) =>
        /\ (word_iter.live =>
                /\ word_iter.done
                /\ iter_log.out = <<>>
                /\ iter_log.visited = <<>>
                /\ ~iter_log.ret.some)
        /\ (all_iter.live =>
                /\ all_iter.done
                /\ all_log.out = <<>>
                /\ ~all_log.ret.some)

\* C6 witness: a slot is empty, the filter is the empty no-op set, and iter()
\* was called once and returned None.
C6_Witness ==
    /\ IterDrained
    /\ HasEmptySlot
    /\ Len(generator.slots) = 2
    /\ generator.word_list = Some({})
    /\ iter_log.out = <<>>

\* The words of the embedded list, one per line of EMBEDDED_WORDLIST.
DefaultWords == { <<"c", "a", "t">>, <<"b", "a", "t">>, <<"a", "a">> }

\* The generator was constructed without a reference list and its list was
\* not replaced since.
ConstructedDefault ==
    \/ last_call.op = "with_slots"
    \/ last_call.op = "new" /\ ~last_call.word_list.some

\* What iter() yields under a present list: everything if the list is empty,
\* its members otherwise.
Filtered(options, words) ==
    IF words = {} THEN Odometer(options) ELSE Members(Odometer(options), words)

\* C7: a generator constructed without a reference list (with_slots, or new
\* with None) holds the embedded default list from construction on: both
\* constructors produce the given slots with the default list, iter() yields
\* exactly the members of the default list, and no iterator call changes the
\* generator.
C7_DefaultResolvedAtConstruction ==
    /\ [](pc = "ready" /\ ConstructedDefault =>
            /\ generator.word_list = Some(DefaultWords)
            /\ (word_iter.live =>
                    /\ IsPrefix(iter_log.out, Members(Odometer(GenOptions), DefaultWords))
                    /\ (iter_log.nones > 0 =>
                            iter_log.out = Members(Odometer(GenOptions), DefaultWords))))
    /\ [][pc = "build" /\ pc' = "ready" /\ ConstructedDefault' =>
            generator' = [slots |-> slot_vec, word_list |-> Some(DefaultWords)]]_vars
    /\ [][pc = "ready" /\ last_call' = last_call => generator' = generator]_vars

\* C7 witness: with_slots over the test's slots, iter() drained: of the 27
\* combinations the two of the default list, cat and bat, were yielded.
C7_Witness ==
    /\ IterDrained
    /\ last_call.op = "with_slots"
    /\ GenOptions = TestOptions
    /\ iter_log.out = << <<"c", "a", "t">>, <<"b", "a", "t">> >>

LoadFailed == last_call.op = "load_word_list_from_file" /\ ~last_call.ok
LoadSucceeded == last_call.op = "load_word_list_from_file" /\ last_call.ok

\* C8: a load_word_list_from_file call on an unreadable source returns an
\* error and leaves the generator's word list and slots as they were, so an
\* iter() after it yields what the unchanged list gives.
C8_FailedLoadChangesNothing ==
    /\ [][LoadFailed' => generator' = generator]_vars
    /\ [](last_call.op = "load_word_list_from_file" =>
            (last_call.ok <=> last_call.path # "missing.txt"))
    /\ [](LoadFailed /\ IterDrained =>
            iter_log.out = Filtered(GenOptions, generator.word_list.val))

\* C8 witness: the load failed on a generator holding the default list, and
\* iter() after it still yields the default list's words cat and bat.
C8_Witness ==
    /\ LoadFailed
    /\ IterDrained
    /\ GenOptions = TestOptions
    /\ generator.word_list = Some(DefaultWords)
    /\ iter_log.out = << <<"c", "a", "t">>, <<"b", "a", "t">> >>

\* The last call on the generator replaced its list.
Replaced == last_call.op = "set_word_list" \/ LoadSucceeded

\* The set the last replacing call was given: the argument of set_word_list,
\* the lines of the file loaded.
GivenWords ==
    IF last_call.op = "set_word_list" THEN last_call.word_list.val
    ELSE IF last_call.path = "words.txt"
         THEN { <<"d", "o", "g">>, <<"a", "b">> }
         ELSE {}

\* C9 as stated, for a generator with at least one slot: after a successful
\* load or a set_word_list the list is exactly the new set, and iter() yields
\* exactly the combinations that are members of the new set. (Fails when the
\* new set is empty: iter() then yields every combination.)
C9_Original ==
    (pc = "ready" /\ Replaced /\ generator.slots # <<>>) =>
        /\ generator.word_list = Some(GivenWords)
        /\ (IterDrained => iter_log.out = Members(Odometer(GenOptions), GivenWords))

\* C9 amended: after a successful load or a set_word_list the list is exactly
\* the new set, whatever it was before, no call after construction changes the
\* slots, and iter() yields exactly the combinations that are members of the
\* new set if that set is non-empty, and every combination if it is empty.
C9_ReplacesFilter ==
    /\ [](pc = "ready" /\ Replaced =>
            /\ generator.word_list = Some(GivenWords)
            /\ (word_iter.live =>
                    /\ IsPrefix(iter_log.out, Filtered(GenOptions, GivenWords))
                    /\ (iter_log.nones > 0 =>
                            iter_log.out = Filtered(GenOptions, GivenWords))))
    /\ [][pc = "ready" => generator'.slots = generator.slots]_vars

\* C9 witness: words.txt (dog, ab) was loaded over whatever list was there,
\* and iter() over the duplicate slots yields ab once per index vector that
\* spells it, and nothing of the earlier list.
C9_Witness ==
    /\ LoadSucceeded
    /\ last_call.path = "words.txt"
    /\ IterDrained
    /\ GenOptions = DupOptions
    /\ iter_log.out = [n \in 1..4 |-> <<"a", "b">>]

\* C10: all_combinations() yields the full product in odometer order under
\* every filter state and after every set_word_list or load: what it has
\* yielded is a prefix of the product, once drained it is the whole product,
\* strings that are not in the word list included.
C10_AllCombinationsBypassesFilter ==
    all_iter.live =>
        /\ IsPrefix(all_log.out, Odometer(GenOptions))
        /\ (all_log.nones > 0 =>
                /\ all_log.out = Odometer(GenOptions)
                /\ Len(all_log.out) = Product(GenSizes))

\* C10 witness: after a successful load of a non-empty list that holds none
\* of the test's combinations, all_combinations() still yields all 27.
C10_Witness ==
    /\ AllDrained
    /\ LoadSucceeded
    /\ NonEmptyFilter
    /\ GenOptions = TestOptions
    /\ Len(all_log.out) = 27
    /\ Range(all_log.out) \cap generator.word_list.val = {}

\* C11: with zero slots the unfiltered enumeration yields exactly one
\* string, the empty one, and is then exhausted: the iterator is not done at
\* construction, its first next() returns the empty string and sets done,
\* every later next() returns None, and nothing panics.
C11_ZeroSlotsYieldOneEmptyString ==
    (all_iter.live /\ generator.slots = <<>>) =>
        /\ pc # "panicked"
        /\ (all_log = NoLog => ~all_iter.done)
        /\ (all_log # NoLog =>
                /\ all_iter.done
                /\ all_log.out = << <<>> >>
                /\ (all_log.nones > 0 <=> ~all_log.ret.some))

\* C11 witness: a generator without slots, all_combinations() drained after
\* the one empty string.
C11_Witness ==
    /\ AllDrained
    /\ generator.slots = <<>>
    /\ all_log.out = << <<>> >>
    /\ all_log.nones = 2

\* One sequence continues the other, and they are equal if both are complete.
SameSequence(a, a_complete, b, b_complete) ==
    /\ IsPrefix(a, b) \/ IsPrefix(b, a)
    /\ (a_complete /\ b_complete) => a = b
    /\ a_complete => IsPrefix(b, a)
    /\ b_complete => IsPrefix(a, b)

\* C12: enumeration is repeatable. An iterator made by iter() (by
\* all_combinations()) returns the same sequence as the one the same method
\* made before it on the same slots and word list, however far either was
\* consumed; a step of an iterator, or dropping it, leaves the generator's
\* slots and word list as they were; and a new iterator starts at the first
\* combination with nothing returned yet.
C12_Repeatable ==
    /\ []((word_iter.live /\ prev.kind = "iter") =>
            SameSequence(iter_log.out, iter_log.nones > 0, prev.out, prev.drained))
    /\ []((all_iter.live /\ prev.kind = "all_combinations") =>
            SameSequence(all_log.out, all_log.nones > 0, prev.out, prev.drained))
    /\ [][(word_iter.live \/ all_iter.live) => generator' = generator]_vars
    /\ [][(~word_iter.live /\ word_iter'.live) =>
            /\ \A i \in 1..Len(generator.slots) : word_iter'.current_indices[i] = 0
            /\ generator' = generator
            /\ iter_log' = NoLog]_vars
    /\ [][(~all_iter.live /\ all_iter'.live) =>
            /\ \A i \in 1..Len(generator.slots) : all_iter'.current_indices[i] = 0
            /\ generator' = generator
            /\ all_log' = NoLog]_vars

\* C12 witness: a second iter() over a non-empty filter is drained after the
\* first one was dropped half way, and both returned something.
C12_Witness ==
    /\ IterDrained
    /\ prev.kind = "iter"
    /\ ~prev.drained
    /\ Len(prev.out) = 1
    /\ Len(iter_log.out) = 2
    /\ NonEmptyFilter

\* C13: no core operation panics, whatever the input shape: constructing
\* slots and generators, reading a slot's character or converting it to a
\* String, and next() on either iterator all complete normally, and the only
\* call that reports a failure is load_word_list_from_file.
C13_NoPanic ==
    /\ pc # "panicked"
    /\ ~last_call.ok => last_call.op = "load_word_list_from_file"

\* C14: reading a Slot that has at least one candidate, by dereferencing it
\* or by converting it to a String, completes and yields the first candidate
\* the slot was constructed with, also after the slot's own iterator advanced.
C14_RepresentativeIsFirstCandidate ==
    slot_log.options # <<>> =>
        /\ slot_log.op = "deref" =>
                /\ pc # "panicked"
                /\ slot_log.ch = Some(slot_log.options[1])
        /\ slot_log.op = "into_string" =>
                /\ pc # "panicked"
                /\ slot_log.str = Some(<<slot_log.options[1]>>)

\* C15: the next() calls on a freshly constructed Slot return its candidates
\* one by one in construction order, repeated candidates included, and once
\* all were returned every call returns None.
C15_SlotIteratesInOrder ==
    slot.live =>
        /\ IsPrefix(slot_log.out, slot_log.options)
        /\ Len(slot_log.out) = slot.current
        /\ slot.options = slot_log.options
        /\ slot_log.nones > 0 => slot_log.out = slot_log.options

\* C15 witness: the slot of b, a, b returned b, a, b and then None twice.
C15_Witness ==
    /\ slot.live
    /\ slot_log.op = "next"
    /\ slot_log.options = <<"b", "a", "b">>
    /\ slot_log.out = <<"b", "a", "b">>
    /\ slot_log.nones = 2

\* The lines of `words`, each ended by a newline.
RECURSIVE Lines(_)
Lines(words) ==
    IF words = <<>> THEN <<>> ELSE Head(words) \o <<"\n">> \o Lines(Tail(words))

\* What main is to print for its arguments: every combination with
\* --all-combinations, else the combinations that pass the file's words or,
\* without a file, the default words.
MainExpected(m) ==
    IF m.all_combinations THEN Odometer(m.char_sets)
    ELSE Filtered(m.char_sets,
                  IF m.word_list.some
                  THEN LinesToSet(FileContent(m.word_list.val))
                  ELSE DefaultWords)

MainMustFail(m) ==
    \/ m.char_sets = <<>>
    \/ m.word_list.some /\ ~Readable(m.word_list.val)

\* C16: the program exits non-zero exactly when it was given no character
\* set or a word list file that cannot be read, with or without
\* --all-combinations; otherwise it prints its results one per line and exits
\* zero; it never panics, and prints nothing but complete result lines.
C16_ExitStatus ==
    /\ main.pc # "panicked"
    /\ main.pc = "exited" =>
          /\ main.exit # ExitSuccess <=> MainMustFail(main)
          /\ ~MainMustFail(main) => main.stdout = Lines(MainExpected(main))
    /\ main.pc = "print" =>
          \E n \in 0..Len(MainExpected(main)) :
              main.stdout = Lines(SubSeq(MainExpected(main), 1, n))

\* C16 witness: --all-combinations with an unreadable word list file and a
\* character set: the program has exited non-zero.
C16_Witness ==
    /\ main.pc = "exited"
    /\ main.all_combinations
    /\ main.char_sets # <<>>
    /\ main.word_list = Some("missing.txt")
    /\ main.exit = ExitFailure

\* C17: iter() filters lazily, one candidate at a time. The candidates its
\* next() calls built so far are the first n combinations in odometer order;
\* the strings returned are exactly those of them that pass the filter; a
\* call that returns a word built nothing after it, and leaves the index
\* vector at the mixed-radix successor of that word's index vector, or done
\* if the word was the last combination; and None is returned only once every
\* combination was built.
C17_LazyPerCandidate ==
    word_iter.live =>
        LET n == Len(iter_log.visited)
            od == Odometer(GenOptions)
        IN  /\ n <= Len(od)
            /\ iter_log.visited = SubSeq(od, 1, n)
            /\ iter_log.out = IF generator.word_list.val = {}
                              THEN iter_log.visited
                              ELSE Members(iter_log.visited,
                                           generator.word_list.val)
            /\ iter_log.ret.some =>
                    /\ n > 0
                    /\ iter_log.visited[n] = iter_log.ret.val
            /\ word_iter.done <=> n = Len(od)
            /\ ~word_iter.done =>
                    word_iter.current_indices = IndexVector(GenOptions, n)
            /\ iter_log.nones > 0 => n = Len(od)

\* C17 witness: over a, b / a, b the first next() built aa, rejected it, built
\* ab and returned it, and the index vector stands at ba.
C17_Witness ==
    /\ word_iter.live
    /\ ~word_iter.done
    /\ iter_log.visited = << <<"a", "a">>, <<"a", "b">> >>
    /\ iter_log.out = << <<"a", "b">> >>
    /\ iter_log.ret = Some(<<"a", "b">>)
    /\ word_iter.current_indices = <<1, 0>>

\* C18: enumeration terminates. A next() call of iter() builds at most as
\* many candidates as there are combinations; either iterator returns at most
\* product-many strings, so of product + 1 calls at least one returned None;
\* an iterator that returned None is done, and every later next() on it
\* returns None again and leaves done set.
C18_Terminates ==
    /\ [](word_iter.live =>
            /\ Len(iter_log.visited) <= Product(GenSizes)
            /\ Len(iter_log.out) + iter_log.nones >= Product(GenSizes) + 1
                    => iter_log.nones >= 1
            /\ iter_log.nones > 0 => word_iter.done /\ ~iter_log.ret.some)
    /\ [](all_iter.live =>
            /\ Len(all_log.out) + all_log.nones >= Product(GenSizes) + 1
                    => all_log.nones >= 1
            /\ all_log.nones > 0 => all_iter.done /\ ~all_log.ret.some)
    /\ [][(word_iter.live /\ word_iter'.live /\ word_iter.done) =>
            /\ word_iter'.done
            /\ iter_log'.out = iter_log.out
            /\ ~iter_log'.ret.some]_vars
    /\ [][(all_iter.live /\ all_iter'.live /\ all_iter.done) =>
            /\ all_iter'.done
            /\ all_log'.out = all_log.out
            /\ ~all_log'.ret.some]_vars

\* C18 witness: iter() over four combinations and a non-empty filter built
\* all four, returned some of them, and then returned None twice.
C18_Witness ==
    /\ IterDrained
    /\ NonEmptyFilter
    /\ Product(GenSizes) = 4
    /\ Len(iter_log.visited) = 4
    /\ Len(iter_log.out) \in 1..3
    /\ iter_log.nones = 2

\* The state of an enumerator is sound: one index per slot and the sizes of
\* the generator's slots; while not done every index is below its slot's
\* candidate count; when done every index is 0.
SoundIter(it) ==
    /\ Len(it.current_indices) = Len(generator.slots)
    /\ it.slot_sizes = GenSizes
    /\ ~it.done => IndicesInRange(generator.slots, it.current_indices)
    /\ it.done => \A i \in 1..Len(it.current_indices) : it.current_indices[i] = 0

\* The index vector of the last combination.
LastIndices(it) == [i \in 1..Len(it.slot_sizes) |-> it.slot_sizes[i] - 1]

\* C19: in every reachable state of either enumerator that is not done, every
\* slot index is below that slot's candidate count, so building a word never
\* indexes out of range and no next() panics. An enumerator is done from
\* construction exactly if some slot is empty; afterwards done is set only by
\* the step from the last combination, whose carry runs past the first slot
\* and leaves every index 0.
C19_IndicesInRange ==
    /\ [](word_iter.live => SoundIter(word_iter))
    /\ [](all_iter.live => SoundIter(all_iter))
    /\ [](pc = "panicked" => ~word_iter.live /\ ~all_iter.live)
    /\ [][(~word_iter.live /\ word_iter'.live) =>
            (word_iter'.done <=> HasEmptySlot)]_vars
    /\ [][(~all_iter.live /\ all_iter'.live) =>
            (all_iter'.done <=> HasEmptySlot)]_vars
    /\ [][(word_iter.live /\ ~word_iter.done /\ word_iter'.done) =>
            /\ Len(iter_log.visited) < Product(GenSizes)
            /\ Len(iter_log'.visited) = Product(GenSizes)
            /\ \A i \in 1..Len(generator.slots) : word_iter'.current_indices[i] = 0]_vars
    /\ [][(all_iter.live /\ ~all_iter.done /\ all_iter'.done) =>
            /\ all_iter.current_indices = LastIndices(all_iter)
            /\ \A i \in 1..Len(generator.slots) : all_iter'.current_indices[i] = 0]_vars

\* C19 witness: iter() over at least four combinations is done after the
\* carry from the last combination, all indices 0, no slot empty.
C19_Witness ==
    /\ word_iter.live
    /\ word_iter.done
    /\ ~HasEmptySlot
    /\ Product(GenSizes) >= 4
    /\ Len(iter_log.visited) = Product(GenSizes)
    /\ word_iter.current_indices = [i \in 1..Len(generator.slots) |-> 0]

\* The generator g with every slot's own cursor set by `cursor`.
WithCursors(g, cursor(_)) ==
    [g EXCEPT !.slots = [i \in 1..Len(g.slots) |->
                            [g.slots[i] EXCEPT !.current = cursor(g.slots[i])]]]

Rewound(s) == 0
Exhausted(s) == Len(s.options)

\* The generators that differ from the current one only in the slots' cursors:
\* all rewound, all exhausted.
CursorVariants ==
    { WithCursors(generator, Rewound), WithCursors(generator, Exhausted) }

\* C20: the enumerators do not read or write the slots' own cursors. In every
\* reachable state, a generator with the same candidate lists and word list
\* but other cursors gives the same new iterators and the same result and
\* next state for next() on both iterators; what iter() and
\* all_combinations() returned so far is a prefix of the sequence determined
\* by the candidate lists and the word list alone; and no step of an
\* iterator changes a slot of the generator.
C20_CursorIndependent ==
    /\ [](pc = "ready" =>
            \A g \in CursorVariants :
                /\ WordIterNew(g) = WordIterNew(generator)
                /\ AllCombinationsIterNew(g.slots)
                       = AllCombinationsIterNew(generator.slots)
                /\ word_iter.live =>
                       WordIterNextFn(g, word_iter)
                           = WordIterNextFn(generator, word_iter)
                /\ all_iter.live =>
                       AllCombinationsIterNextFn(g.slots, all_iter)
                           = AllCombinationsIterNextFn(generator.slots, all_iter))
    /\ [](word_iter.live =>
            IsPrefix(iter_log.out, Filtered(GenOptions, generator.word_list.val)))
    /\ [](all_iter.live => IsPrefix(all_log.out, Odometer(GenOptions)))
    /\ [][(word_iter.live \/ all_iter.live) =>
            generator'.slots = generator.slots]_vars

\* C20 witness: iter() is drained with two or more results over slots of
\* which one has its cursor advanced and another has not.
C20_Witness ==
    /\ IterDrained
    /\ Len(iter_log.out) >= 2
    /\ \E i, j \in 1..Len(generator.slots) :
          /\ generator.slots[i].current > 0
          /\ generator.slots[j].current = 0

\* Some slot of the generator holds a candidate more than once.
HasDuplicates ==
    \E i \in 1..Len(GenOptions) :
        \E j, k \in 1..Len(GenOptions[i]) :
            j # k /\ GenOptions[i][j] = GenOptions[i][k]

\* How often w occurs in seq, and how many index vectors spell w.
Occurrences(seq, w) == Cardinality({ n \in 1..Len(seq) : seq[n] = w })

Spellings(options, w) ==
    Cardinality({ n \in 0..(Product(Sizes(options)) - 1) :
                    Combination(options, n) = w })

\* C21: duplicate candidates are not deduplicated. Over slots with repeated
\* candidates all_combinations() returns the string of the n-th index vector
\* at its n-th call, so once drained it has returned product-many strings and
\* each string as often as there are index vectors that spell it; and iter()
\* under a non-empty filter, once drained, has returned each member as often
\* as there are index vectors that spell it, and nothing else.
C21_DuplicatesKept ==
    (pc = "ready" /\ HasDuplicates) =>
        /\ all_iter.live =>
              /\ \A n \in 1..Len(all_log.out) :
                    all_log.out[n] = Combination(GenOptions, n - 1)
              /\ all_log.nones > 0 =>
                    /\ Len(all_log.out) = Product(GenSizes)
                    /\ \A w \in Range(all_log.out) :
                          Occurrences(all_log.out, w) = Spellings(GenOptions, w)
        /\ (word_iter.live /\ NonEmptyFilter) =>
              /\ \A w \in Range(iter_log.out) :
                    /\ w \in generator.word_list.val
                    /\ Occurrences(iter_log.out, w) <= Spellings(GenOptions, w)
              /\ iter_log.nones > 0 =>
                    \A w \in generator.word_list.val :
                        Occurrences(iter_log.out, w) = Spellings(GenOptions, w)

\* C21 witness: iter() over a, a / b, a, b / b, a, b, filtering against a set
\* that holds aab, is drained after returning aab four times, once per index
\* vector that spells it.
C21_Witness ==
    /\ IterDrained
    /\ NonEmptyFilter
    /\ GenOptions = << <<"a", "a">>, <<"b", "a", "b">>, <<"b", "a", "b">> >>
    /\ iter_log.out = [n \in 1..4 |-> <<"a", "a", "b">>]
    /\ Spellings(GenOptions, <<"a", "a", "b">>) = 4
    /\ Product(GenSizes) = 18

\* C22: the word list of a constructed generator is never absent: after every
\* constructor (new with or without a list, with_slots, with_no_filtering),
\* every set_word_list and every load_word_list_from_file, failed ones
\* included, it is Some set, so no iter() runs on a generator without a list
\* and WordIter::next never takes its branch for an absent list.
C22_WordListPresent ==
    /\ pc = "ready" => generator.word_list.some
    /\ word_iter.live => generator.word_list # NoSet
    /\ last_call.op # "none" => generator.word_list.some

\* C22 witness: a load from an unreadable file has failed on a generator
\* built by new without a list, and iter() runs with the list present.
C22_Witness ==
    /\ LoadFailed
    /\ generator.word_list = Some(DefaultWords)
    /\ word_iter.live
    /\ Len(iter_log.out) >= 1

\* The last call on the generator gave it zero words: set_word_list of the
\* empty set, or a successful load of a file without lines.
GivenNoWords ==
    \/ last_call.op = "set_word_list" /\ last_call.word_list = Some({})
    \/ LoadSucceeded /\ LinesToSet(FileContent(last_call.path)) = {}

\* C23: a set_word_list with the empty set, or a successful load of a file
\* with zero lines, makes the list the empty set, whatever list was there,
\* a non-empty one included; and an iter() after it yields every combination
\* of the product in order, not nothing.
C23_EmptyReplacementDisablesFilter ==
    /\ [][(GivenNoWords' /\ last_call' # last_call) =>
            /\ generator'.word_list = Some({})
            /\ generator'.slots = generator.slots]_vars
    /\ [][(GivenNoWords' /\ NonEmptyFilter /\ generator' # generator) =>
            generator'.word_list = Some({})]_vars
    /\ []((pc = "ready" /\ GivenNoWords) =>
            /\ generator.word_list = Some({})
            /\ word_iter.live =>
                  /\ IsPrefix(iter_log.out, Odometer(GenOptions))
                  /\ iter_log.nones > 0 =>
                        /\ iter_log.out = Odometer(GenOptions)
                        /\ Len(iter_log.out) = Product(GenSizes))

\* C23 witness: empty.txt was loaded into a generator over the doc example's
\* slots, and iter() is drained after all eight combinations.
C23_Witness ==
    /\ LoadSucceeded
    /\ last_call.path = "empty.txt"
    /\ IterDrained
    /\ GenOptions = DocOptions
    /\ Len(iter_log.out) = 8
    /\ iter_log.out[2] = <<"c", "a", "g">>
====
